---- MODULE Spec2Model ----
(***************************************************************************)
(* Model of the purge engine of pond-slime (src/src/main.rs).              *)
(*                                                                         *)
(* Two specifications share one set of variables:                          *)
(*   Spec      the command handler purge_old, step by step as it is coded; *)
(*   ExecSpec  the two deletion phases bulk_delete and slow_bulk_delete,   *)
(*             applied to inputs drawn from bounded sets.                  *)
(*                                                                         *)
(* Wall-clock time (chrono Utc) is counted in units of 6 hours, monotonic  *)
(* time (tokio Instant) in units of 30 seconds.                            *)
(***************************************************************************)
EXTENDS Integers, Sequences, FiniteSets, TLC

----------------------------------------------------------------------------
(* Bounds of the model *)

\* longest channel history streamed to purge_old
MaxHist == 3
\* wall clock (6 h units) at which an invocation starts
UtcStart == 60
\* the wall clock advances at most this far during one invocation
MaxUtcDrift == 2
\* the monotonic clock (30 s units) runs from 0 to MaxInstant
MaxInstant == 4
\* number of button clicks the environment produces
MaxClicks == 2
\* longest message sequence handed to the deletion phases
MaxExecMsgs == 5
\* METER_LIMIT (line 17) and the chunk size of messages.chunks(100) (line 76),
\* scaled down from 500 and 100 so that the limit is reached within
\* MaxExecMsgs messages; every formula is stated in terms of these names
METER_LIMIT == 2
ChunkSize == 2

----------------------------------------------------------------------------
(* Program constants, in the model's units *)

\* chrono::Duration::days(7), in 6 h units
Days7 == 28
\* chrono::Duration::days(13) + chrono::Duration::hours(12), in 6 h units
BulkCutoffAge == 54
\* the collector's timeout, from_secs(120), in 30 s units
GateTimeout == 4
\* Duration::weeks(2), in 6 h units
Weeks2 == 56
\* tokio::time::Duration::from_secs(60), in 30 s units
WindowLen == 2

\* ages (6 h units, relative to UtcStart) a message of the history may have:
\* around the retention cutoff and around the bulk cutoff
Ages == {27, 28, 29, 53, 54, 55}
Timestamps == {UtcStart - a : a \in Ages}

----------------------------------------------------------------------------
(* Values *)

\* Option<T>: None is the empty sequence, Some(v) is <<v>>
None == <<>>
Some(v) == <<v>>
IsSome(o) == o # <<>>
UnwrapOr(o, d) == IF o = <<>> THEN d ELSE o[1]

\* a Message: identifier and creation timestamp
Msg(i, t) == [id |-> i, ts |-> t]
NoMsg == [id |-> 0, ts |-> 0]

\* items of the history stream: Result<Message, Error>
OkItem(m) == [ok |-> TRUE, msg |-> m]
ErrItem == [ok |-> FALSE, msg |-> NoMsg]

Ids(ms) == {ms[k].id : k \in 1..Len(ms)}

\* channel histories as the platform streams them: newest first, so the
\* timestamps never increase along the sequence; identifiers are positions
SortedTs(n) == {h \in [1..n -> Timestamps] : \A k \in 1..(n-1) : h[k] >= h[k+1]}
Histories == UNION {{[k \in 1..n |-> Msg(k, h[k])] : h \in SortedTs(n)} : n \in 0..MaxHist}

\* the stream messages_iter yields for a history: the messages in order; when
\* err_at = k > 0 the k-th poll yields an error instead
Stream(h, e) ==
    IF e = 0 THEN [k \in 1..Len(h) |-> OkItem(h[k])]
    ELSE [k \in 1..e |-> IF k < e THEN OkItem(h[k]) ELSE ErrItem]

\* the custom ids of the two buttons of this invocation, and of another one
OwnTags == {"own-yes", "own-no"}
OtherTags == {"other-yes", "other-no"}

----------------------------------------------------------------------------
VARIABLES
    pc,            \* position of the running function
    result,        \* "none" while running, then "Ok", "Err" (a failed call),
                   \* "HistoryErr" (the error of the history stream) or "Panic"
    utc,           \* wall clock
    instant,       \* monotonic clock
    history,       \* the channel's history at the start
    err_at,        \* position at which the history stream fails, or 0
    channel,       \* identifiers of the messages now in the channel
    dry_arg,       \* the dry_run argument: Option<bool>
    cfg_debug,     \* whether the build sets cfg(debug), as rustc --cfg debug does
    dry_run,       \* the effective dry-run flag
    before,        \* purge_old: retention cutoff
    messages,      \* purge_old: the fetched candidates
    bulk_cutoff,   \* purge_old: bulk cutoff
    slow_index,    \* purge_old: Option<usize>, 0-based
    old_message_count, \* purge_old: messages beyond the bulk cutoff
    bulk_count,    \* purge_old: messages that can be bulk deleted
    buttons,       \* "none", "enabled" or "disabled": the posted prompt
    await_start,   \* instant at which the collector started waiting
    interaction,   \* Option<custom id> the collector resolved with
    decision,      \* "none", "Confirmed", "Declined" or "TimedOut"
    ack,           \* content of the ephemeral follow-up, or "none"
    clicks,        \* button clicks produced so far
    calls,         \* delete calls issued, in order, each with its outcome
    debug_assertions, \* whether the build is a debug build (cfg(debug_assertions))
    bulk_seg,      \* the slice given to bulk_delete
    slow_seg,      \* the slice given to slow_bulk_delete
    iter,          \* loop position: chunks or messages already iterated
    count,         \* the phase's local count
    start_time,    \* the phase's local start_time
    win,           \* number of the current meter window of the execution
    ops,           \* the counted operations: instant, phase and window
    susp,          \* the suspensions: phase, and iterations done before
    sh_count,      \* count of the same run with the dry-run flag inverted
    sh_start       \* start_time of that run

purgeVars == <<dry_arg, cfg_debug, dry_run, before, messages, bulk_cutoff,
               slow_index, old_message_count, bulk_count, buttons,
               await_start, interaction, decision, ack, clicks>>
execVars == <<debug_assertions, bulk_seg, slow_seg, iter, count, start_time, win,
              ops, susp, sh_count, sh_start>>
vars == <<pc, result, utc, instant, history, err_at, channel, purgeVars, calls,
          execVars>>

----------------------------------------------------------------------------
(* messages_before, lines 46-62 *)

\* the closure given to skip_while: an Ok message at or after the cutoff is
\* skipped, an error is not (unwrap_or(false))
SkipPredSkipsErr(v, b) == IF v.ok THEN v.msg.ts >= b ELSE TRUE
SkipPredStrict(v, b) == IF v.ok THEN v.msg.ts > b ELSE FALSE
SkipPred(v, b) == IF v.ok THEN v.msg.ts >= b ELSE FALSE

RECURSIVE SkipWhile(_, _)
SkipWhile(s, b) ==
    IF s = <<>> THEN <<>>
    ELSE IF SkipPred(Head(s), b) THEN SkipWhile(Tail(s), b)
    ELSE s

\* try_collect: the first error ends the collection and is the result
TryCollect(s) ==
    IF \E k \in 1..Len(s) : ~s[k].ok
    THEN [ok |-> FALSE, val |-> <<>>]
    ELSE [ok |-> TRUE, val |-> [k \in 1..Len(s) |-> s[k].msg]]

messages_before(stream, b) == TryCollect(SkipWhile(stream, b))

----------------------------------------------------------------------------
(* the plan computed in purge_old, lines 145-168 *)

\* .iter().enumerate().find(|(_, msg)| msg.timestamp < bulk_cutoff): the
\* 0-based index of the first such message
FindPredInclusive(m, cutoff) == m.ts <= cutoff
FindPred(m, cutoff) == m.ts < cutoff

FindSlow(ms, cutoff) ==
    IF \E k \in 1..Len(ms) : FindPred(ms[k], cutoff)
    THEN Some((CHOOSE k \in 1..Len(ms) :
                 /\ FindPred(ms[k], cutoff)
                 /\ \A j \in 1..(k-1) : ~FindPred(ms[j], cutoff)) - 1)
    ELSE None

\* old_message_count = messages.len() - idx; the None arm reports no such
\* messages (its estimate is 0.)
OldMessageCount(ms, si) == IF IsSome(si) THEN Len(ms) - si[1] ELSE 0

\* let bulk_count = slow_index.unwrap_or(0)
BulkCount(ms, si) == UnwrapOr(si, 0)

\* line 141: if messages.is_empty() { return Ok(()) }
IsEmptyNever(ms) == FALSE
IsEmpty(ms) == ms = <<>>

\* a delete call: its kind and the messages it names
BatchCall(ms, ok) == [kind |-> "delete_messages", msgs |-> ms, ok |-> ok]
SingleCall(m, ok) == [kind |-> "delete_message", msgs |-> <<m>>, ok |-> ok]

\* what purge_old deletes once the collector has resolved and the follow-up is
\* sent (lines 213-228): nothing; it calls neither bulk_delete nor
\* slow_bulk_delete
DeleteCallsAnyChoice(choice, ms, dry) == IF dry THEN <<>> ELSE <<BatchCall(ms, TRUE)>>
DeleteCalls(choice, ms, dry) == <<>>

RECURSIVE CallIds(_)
CallIds(cs) ==
    IF cs = <<>> THEN {}
    ELSE (IF Head(cs).ok THEN Ids(Head(cs).msgs) ELSE {}) \union CallIds(Tail(cs))

----------------------------------------------------------------------------
(* purge_old, lines 123-229 *)

Init ==
    /\ pc = "start"
    /\ result = "none"
    /\ utc = UtcStart
    /\ instant = 0
    /\ history \in Histories
    /\ err_at \in 0..(Len(history) + 1)
    /\ channel = Ids(history)
    /\ dry_arg \in {None, Some(TRUE), Some(FALSE)}
    /\ cfg_debug \in BOOLEAN
    /\ dry_run = FALSE
    /\ before = 0
    /\ messages = <<>>
    /\ bulk_cutoff = 0
    /\ slow_index = None
    /\ old_message_count = 0
    /\ bulk_count = 0
    /\ buttons = "none"
    /\ await_start = 0
    /\ interaction = None
    /\ decision = "none"
    /\ ack = "none"
    /\ clicks = 0
    /\ calls = <<>>
    /\ debug_assertions \in BOOLEAN
    /\ bulk_seg = <<>>
    /\ slow_seg = <<>>
    /\ iter = 0
    /\ count = 0
    /\ start_time = 0
    /\ win = 0
    /\ ops = <<>>
    /\ susp = <<>>
    /\ sh_count = 0
    /\ sh_start = 0

Return(r) == pc' = "done" /\ result' = r

\* positions at which time passing is observed by a later clock read: the
\* collector's wait and the meter's sleep_until
ClockReaders == {"await", "bulk_sleep", "slow_sleep"}
UtcReaders == {"defer", "fetch", "plan"}

\* line 130: dry_run.unwrap_or(false) || cfg!(debug). cfg!(debug) reads the
\* custom cfg name `debug`, which a debug profile does not set: the profile
\* sets debug_assertions
EffectiveDryRun(arg, debug_cfg, debug_build) == UnwrapOr(arg, FALSE) \/ debug_cfg

\* lines 129-132: the cutoff, the flag, and the pooled connection
Acquire(ok) ==
    /\ pc = "start"
    /\ before' = utc - Days7
    /\ dry_run' = EffectiveDryRun(dry_arg, cfg_debug, debug_assertions)
    /\ IF ok THEN pc' = "defer" /\ result' = result ELSE Return("Err")
    /\ UNCHANGED execVars
    /\ UNCHANGED <<utc, instant, history, err_at, channel, calls, dry_arg,
                   cfg_debug, messages, bulk_cutoff, slow_index,
                   old_message_count, bulk_count, buttons, await_start,
                   interaction, decision, ack, clicks>>

\* line 134
Defer(ok) ==
    /\ pc = "defer"
    /\ IF ok THEN pc' = "fetch" /\ result' = result ELSE Return("Err")
    /\ UNCHANGED execVars
    /\ UNCHANGED <<utc, instant, history, err_at, channel, calls, purgeVars>>

\* line 136
Fetch ==
    /\ pc = "fetch"
    /\ LET r == messages_before(Stream(history, err_at), before) IN
         IF r.ok
         THEN /\ messages' = r.val
              /\ pc' = "plan"
              /\ result' = result
         ELSE /\ messages' = messages
              /\ Return("HistoryErr")
    /\ UNCHANGED execVars
    /\ UNCHANGED <<utc, instant, history, err_at, channel, calls, dry_arg,
                   cfg_debug, dry_run, before, bulk_cutoff, slow_index,
                   old_message_count, bulk_count, buttons, await_start,
                   interaction, decision, ack, clicks>>

\* lines 138-185
Plan ==
    /\ pc = "plan"
    /\ bulk_cutoff' = utc - BulkCutoffAge
    /\ IF IsEmpty(messages)
       THEN /\ Return("Ok")
            /\ UNCHANGED <<slow_index, old_message_count, bulk_count>>
       ELSE /\ slow_index' = FindSlow(messages, bulk_cutoff')
            /\ old_message_count' = OldMessageCount(messages, slow_index')
            /\ bulk_count' = BulkCount(messages, slow_index')
            /\ pc' = "send"
            /\ result' = result
    /\ UNCHANGED execVars
    /\ UNCHANGED <<utc, instant, history, err_at, channel, calls, dry_arg,
                   cfg_debug, dry_run, before, messages, buttons, await_start,
                   interaction, decision, ack, clicks>>

\* lines 187-196: the prompt with the two buttons of this invocation
Send(ok) ==
    /\ pc = "send"
    /\ IF ok
       THEN /\ buttons' = "enabled"
            /\ await_start' = instant
            /\ pc' = "await"
            /\ result' = result
       ELSE /\ UNCHANGED <<buttons, await_start>>
            /\ Return("Err")
    /\ UNCHANGED execVars
    /\ UNCHANGED <<utc, instant, history, err_at, channel, calls, dry_arg,
                   cfg_debug, dry_run, before, messages, bulk_cutoff,
                   slow_index, old_message_count, bulk_count, interaction,
                   decision, ack, clicks>>

\* The decision the gate yields for a resolved collector (lines 198, 213-217)
DecisionOf(i) ==
    IF i = None THEN "TimedOut"
    ELSE IF i[1] = "own-yes" THEN "Confirmed" ELSE "Declined"

\* the collector's filter, line 200: custom_ids(vec![yes_uuid, no_uuid])
MatchesAny(tag) == TRUE
Matches(tag) == tag \in OwnTags

\* A button click somewhere on the platform. The collector of this invocation
\* takes it when it is waiting and the custom id is one of its two; a button of
\* this invocation can be clicked only while it is shown enabled.
Click(tag) ==
    /\ buttons # "none"
    /\ clicks < MaxClicks
    /\ clicks' = clicks + 1
    /\ tag \in OwnTags => buttons = "enabled"
    /\ IF pc = "await" /\ Matches(tag)
       THEN /\ interaction' = Some(tag)
            /\ decision' = DecisionOf(interaction')
            /\ pc' = "respond"
       ELSE UNCHANGED <<interaction, decision, pc>>
    /\ UNCHANGED execVars
    /\ UNCHANGED <<result, utc, instant, history, err_at, channel, calls,
                   dry_arg, cfg_debug, dry_run, before, messages, bulk_cutoff,
                   slow_index, old_message_count, bulk_count, buttons,
                   await_start, ack>>

\* line 199: .timeout(Duration::from_secs(120)) has run out
ExpiredEarly(now, start) == now + 1 >= start + GateTimeout
Expired(now, start) == now >= start + GateTimeout

\* lines 198-202 and 228: the collector yields None after 120 s, and
\* purge_old returns Ok
Timeout ==
    /\ pc = "await"
    /\ Expired(instant, await_start)
    /\ decision' = DecisionOf(None)
    /\ Return("Ok")
    /\ UNCHANGED execVars
    /\ UNCHANGED <<utc, instant, history, err_at, channel, calls, dry_arg,
                   cfg_debug, dry_run, before, messages, bulk_cutoff,
                   slow_index, old_message_count, bulk_count, buttons,
                   await_start, interaction, ack, clicks>>

\* lines 203-211: the prompt is updated with both buttons disabled
Respond(ok) ==
    /\ pc = "respond"
    /\ IF ok
       THEN buttons' = "disabled" /\ pc' = "followup" /\ result' = result
       ELSE buttons' = buttons /\ Return("Err")
    /\ UNCHANGED execVars
    /\ UNCHANGED <<utc, instant, history, err_at, channel, calls, dry_arg,
                   cfg_debug, dry_run, before, messages, bulk_cutoff,
                   slow_index, old_message_count, bulk_count, await_start,
                   interaction, decision, ack, clicks>>

\* lines 213-217: the content of the follow-up
Content(i) == IF i[1] = "own-yes" THEN "yes" ELSE "no"

\* lines 213-228: the ephemeral follow-up, and the end of purge_old
Followup(ok) ==
    /\ pc = "followup"
    /\ IF ok
       THEN /\ ack' = Content(interaction)
            /\ calls' = calls \o DeleteCalls(interaction[1], messages, dry_run)
            /\ channel' = channel \ CallIds(calls')
            /\ Return("Ok")
       ELSE /\ UNCHANGED <<ack, calls, channel>>
            /\ Return("Err")
    /\ UNCHANGED execVars
    /\ UNCHANGED <<utc, instant, history, err_at, dry_arg, cfg_debug, dry_run,
                   before, messages, bulk_cutoff, slow_index,
                   old_message_count, bulk_count, buttons, await_start,
                   interaction, decision, clicks>>

\* chunks(100), line 76: consecutive groups of at most ChunkSize messages
Min(a, b) == IF a < b THEN a ELSE b
NumChunks(ms) == (Len(ms) + ChunkSize - 1) \div ChunkSize
ChunkOneMore(ms, j) == SubSeq(ms, (j - 1) * ChunkSize + 1, Min(j * ChunkSize + 1, Len(ms)))
Chunk(ms, j) == SubSeq(ms, (j - 1) * ChunkSize + 1, Min(j * ChunkSize, Len(ms)))

\* a delete call of a deletion phase is in flight (lines 78 and 102): in a dry
\* run the loops never await
AwaitingCall ==
    /\ ~dry_run
    /\ \/ pc = "bulk_loop" /\ iter < NumChunks(bulk_seg)
       \/ pc = "slow_loop" /\ iter < Len(slow_seg)

\* the monotonic clock advances; it is read only while the collector waits
\* and inside the deletion phases
Tick ==
    /\ pc \in ClockReaders \/ AwaitingCall
    /\ instant < MaxInstant
    /\ instant' = instant + 1
    /\ UNCHANGED execVars
    /\ UNCHANGED <<pc, result, utc, history, err_at, channel, calls, purgeVars>>

\* the wall clock advances; purge_old reads it at lines 129 and 138
UtcTick ==
    /\ pc \in UtcReaders
    /\ utc < UtcStart + MaxUtcDrift
    /\ utc' = utc + 1
    /\ UNCHANGED <<pc, result, instant, history, err_at, channel, calls,
                   purgeVars, execVars>>

Next ==
    \/ \E ok \in BOOLEAN : Acquire(ok)
    \/ \E ok \in BOOLEAN : Defer(ok)
    \/ Fetch
    \/ Plan
    \/ \E ok \in BOOLEAN : Send(ok)
    \/ \E tag \in OwnTags \union OtherTags : Click(tag)
    \/ Timeout
    \/ \E ok \in BOOLEAN : Respond(ok)
    \/ \E ok \in BOOLEAN : Followup(ok)
    \/ Tick
    \/ UtcTick

Spec == Init /\ [][Next]_vars

----------------------------------------------------------------------------
(* Properties of purge_old, checked under Spec *)

\* positions of purge_old after messages_before has returned Ok
Fetched == pc \in {"plan", "send", "await", "respond", "followup"}
\* positions of purge_old after the plan has been computed
Planned == pc \in {"send", "await", "respond", "followup"}
Older(ms, t) == SelectSeq(ms, LAMBDA m : m.ts < t)

\* C1: no delete call is issued unless the decision is Confirmed, and after a
\* Declined or TimedOut decision the channel holds the messages it held at the
\* start.
C1_ConfirmationGating ==
    /\ decision # "Confirmed" => calls = <<>>
    /\ decision \in {"Declined", "TimedOut"} => channel = Ids(history)

C1_Witness ==
    /\ pc = "done" /\ result = "Ok" /\ decision = "Declined"
    /\ ack = "no" /\ ~dry_run /\ messages # <<>>

\* C2: when the candidates are not empty, the decision is Confirmed, no call
\* failed and dry_run is false, purge_old has deleted every candidate by the
\* time it returns.
C2_ConfirmedRunsExecutor ==
    (pc = "done" /\ result = "Ok" /\ decision = "Confirmed" /\ ~dry_run)
        => Ids(messages) \cap channel = {}

\* C3: the plan's counts add up to the number of candidates, and when no
\* candidate is older than the bulk cutoff all of them are bulk messages.
C3_PartitionComplete ==
    Planned =>
        /\ bulk_count + old_message_count = Len(messages)
        /\ Older(messages, bulk_cutoff) = <<>> =>
               bulk_count = Len(messages) /\ old_message_count = 0

\* the segments the plan's counts describe: the first bulk_count candidates,
\* and the last old_message_count candidates
BulkSegment == SubSeq(messages, 1, bulk_count)
SlowSegment == SubSeq(messages, Len(messages) - old_message_count + 1, Len(messages))

\* C4: every message of the bulk segment is not older than the bulk cutoff,
\* every message of the slow segment is older than it, and the slow segment
\* begins at the split index.
C4_SegmentsByCutoff ==
    Planned =>
        /\ \A k \in 1..Len(BulkSegment) : BulkSegment[k].ts >= bulk_cutoff
        /\ \A k \in 1..Len(SlowSegment) : SlowSegment[k].ts < bulk_cutoff
        /\ IsSome(slow_index) =>
               /\ bulk_count = slow_index[1]
               /\ \A k \in 1..Len(messages) :
                     (k - 1 >= slow_index[1]) <=> (messages[k].ts < bulk_cutoff)

C4_Witness ==
    /\ Planned /\ IsSome(slow_index)
    /\ bulk_count >= 1 /\ old_message_count >= 1
    /\ \E k \in 1..Len(messages) : messages[k].ts = bulk_cutoff

\* C5: messages_before returns exactly the messages of the history that are
\* strictly older than the cutoff, in the order of the history.
C5_FetchCorrect ==
    Fetched => messages = Older(history, before)

C5_Witness ==
    /\ Fetched /\ messages # <<>> /\ Len(messages) < Len(history)
    /\ \E k \in 1..Len(history) : history[k].ts = before

\* C9: with no candidates purge_old returns Ok at once: no prompt is posted,
\* no interaction is awaited and nothing is deleted.
C9_EmptyIsNoop ==
    /\ [](messages = <<>> =>
            /\ buttons = "none" /\ decision = "none" /\ ack = "none"
            /\ calls = <<>> /\ channel = Ids(history)
            /\ pc \notin {"send", "await", "respond", "followup"})
    /\ [][(pc = "plan" /\ messages = <<>> /\ pc' # pc)
            => (pc' = "done" /\ result' = "Ok")]_vars

C9_Witness ==
    /\ pc = "done" /\ result = "Ok" /\ messages = <<>>
    /\ bulk_cutoff # 0 /\ history # <<>> /\ buttons = "none"

\* C10: the gate yields one decision, made by the first click on one of this
\* invocation's two buttons or by the timeout; after a click the buttons are
\* shown disabled and the follow-up names the clicked choice; later clicks and
\* clicks on another invocation's buttons change nothing.
C10_OneDecision ==
    /\ [][decision # "none" => decision' = decision]_vars
    /\ [][decision' # decision =>
            /\ pc = "await"
            /\ \/ /\ clicks' = clicks + 1
                  /\ interaction' \in {Some(t) : t \in OwnTags}
                  /\ decision' = (IF interaction' = Some("own-yes")
                                   THEN "Confirmed" ELSE "Declined")
               \/ /\ clicks' = clicks
                  /\ instant >= await_start + GateTimeout
                  /\ interaction' = None
                  /\ decision' = "TimedOut"]_vars
    /\ [][(clicks' # clicks /\ decision' = decision) =>
            UNCHANGED <<pc, result, buttons, interaction, ack, calls, channel>>]_vars
    /\ [](pc = "done" /\ buttons # "none" => decision # "none")
    /\ [](result = "Ok" /\ decision = "Confirmed" => buttons = "disabled" /\ ack = "yes")
    /\ [](result = "Ok" /\ decision = "Declined" => buttons = "disabled" /\ ack = "no")
    /\ [](decision = "TimedOut" => interaction = None /\ ack = "none")

C10_Witness ==
    /\ pc = "done" /\ result = "Ok" /\ decision = "Confirmed"
    /\ buttons = "disabled" /\ ack = "yes" /\ clicks = MaxClicks

\* a build other than a production build: a debug build, or one that sets
\* cfg(debug)
NonProduction == debug_assertions \/ cfg_debug

\* C11: the effective dry-run flag is false when the argument is omitted in a
\* production build, is the argument when it is given in a production build,
\* and is true in every non-production build.
C11_EffectiveDryRun ==
    pc # "start" =>
        /\ (~NonProduction /\ dry_arg = None) => ~dry_run
        /\ (~NonProduction /\ IsSome(dry_arg)) => dry_run = dry_arg[1]
        /\ NonProduction => dry_run

----------------------------------------------------------------------------
(* bulk_delete (lines 64-90) and slow_bulk_delete (lines 92-114) *)

\* ages of the messages handed to the phases: at the bulk cutoff, and two
\* weeks
ExecAges == {54, 56}
ExecTs(n) == {h \in [1..n -> {UtcStart - a : a \in ExecAges}] :
                \A k \in 1..(n-1) : h[k] >= h[k+1]}
ExecInputs == UNION {{[k \in 1..n |-> Msg(k, h[k])] : h \in ExecTs(n)} : n \in 0..MaxExecMsgs}

\* lines 77-79 and 101-103: if !dry_run { delete(...).await? }
Issued(dry, call) == IF dry THEN <<>> ELSE <<call>>

\* lines 80 and 104: count += 1, whether or not a call was issued
CountedIfIssued(c, dry) == IF dry THEN c ELSE c + 1
Counted(c, dry) == c + 1

\* the ? of lines 78 and 102: a failed call ends the function with its error
PropagatesNever(ok) == FALSE
Propagates(ok) == ~ok

\* lines 82 and 106: if count >= METER_LIMIT
LimitReachedLate(c) == c > METER_LIMIT
LimitReached(c) == c >= METER_LIMIT

\* lines 83 and 107: sleep_until(start_time + 60 s) has returned
ElapsedAtOnce(now, start) == now >= start
Elapsed(now, start) == now >= start + WindowLen

\* lines 75 and 97: let mut count = 0, a local of each phase
NewCountKept(prev) == prev
NewCount(prev) == 0

\* lines 69-71: debug_assert!(messages[messages.len() - 1].timestamp > now - 2 weeks);
\* on an empty slice the index expression itself panics
AssertPanicsLenient(ms, now) ==
    IF ms = <<>> THEN TRUE ELSE ~(ms[Len(ms)].ts >= now - Weeks2)
AssertPanicsAtCutoff(ms, now) ==
    IF ms = <<>> THEN TRUE ELSE ~(ms[Len(ms)].ts > now - BulkCutoffAge)
AssertPanics(ms, now) ==
    IF ms = <<>> THEN TRUE ELSE ~(ms[Len(ms)].ts > now - Weeks2)

InitExec ==
    /\ pc = "bulk_delete"
    /\ result = "none"
    /\ utc \in UtcStart..(UtcStart + MaxUtcDrift)
    /\ instant = 0
    /\ \E ms \in ExecInputs : \E k \in 0..Len(ms) :
          /\ history = ms
          /\ bulk_seg = SubSeq(ms, 1, k)
          /\ slow_seg = SubSeq(ms, k + 1, Len(ms))
    /\ err_at = 0
    /\ channel = Ids(history)
    /\ dry_arg = None
    /\ cfg_debug = FALSE
    /\ dry_run \in BOOLEAN
    /\ debug_assertions \in BOOLEAN
    /\ before = 0
    /\ messages = history
    /\ bulk_cutoff = UtcStart - BulkCutoffAge
    /\ slow_index = None
    /\ old_message_count = 0
    /\ bulk_count = 0
    /\ buttons = "none"
    /\ await_start = 0
    /\ interaction = None
    /\ decision = "none"
    /\ ack = "none"
    /\ clicks = 0
    /\ calls = <<>>
    /\ iter = 0
    /\ count = 0
    /\ start_time = 0
    /\ win = 0
    /\ ops = <<>>
    /\ susp = <<>>
    /\ sh_count = 0
    /\ sh_start = 0

fixedVars == <<utc, history, err_at, purgeVars, debug_assertions, bulk_seg, slow_seg>>

\* one pass of the loop body of a phase (lines 77-86, 101-110) on `call`
LoopBody(phase, call, ok, sleep) ==
    /\ calls' = calls \o Issued(dry_run, call)
    /\ IF ~dry_run /\ Propagates(ok)
       THEN /\ pc' = "returned"
            /\ result' = "Err"
            /\ UNCHANGED <<channel, iter, count, ops, susp, sh_count>>
       ELSE /\ channel' = channel \ CallIds(Issued(dry_run, call))
            /\ iter' = iter + 1
            /\ count' = Counted(count, dry_run)
            /\ sh_count' = Counted(sh_count, ~dry_run)
            /\ ops' = Append(ops, [at |-> instant, phase |-> phase, win |-> win,
                                   start |-> start_time])
            /\ pc' = IF LimitReached(count') THEN sleep ELSE pc
            /\ susp' = IF LimitReached(count')
                       THEN Append(susp, [phase |-> phase, after |-> iter'])
                       ELSE susp
            /\ result' = result
    /\ UNCHANGED <<instant, start_time, sh_start, win, fixedVars>>

\* lines 83-85 and 107-109: the sleep is over; count = 0; start_time = now
Wake(sleep, loop) ==
    /\ pc = sleep
    /\ Elapsed(instant, start_time)
    /\ count' = 0
    /\ start_time' = instant
    /\ win' = win + 1
    /\ IF LimitReached(sh_count)
       THEN sh_count' = 0 /\ sh_start' = instant
       ELSE UNCHANGED <<sh_count, sh_start>>
    /\ pc' = loop
    /\ UNCHANGED <<result, instant, channel, calls, iter, ops, susp, fixedVars>>

\* lines 69-75
BulkStart ==
    /\ pc = "bulk_delete"
    /\ IF debug_assertions /\ AssertPanics(bulk_seg, utc)
       THEN /\ pc' = "done"
            /\ result' = "Panic"
            /\ UNCHANGED <<iter, count, start_time, win, sh_count, sh_start>>
       ELSE /\ pc' = "bulk_loop"
            /\ result' = result
            /\ iter' = 0
            /\ count' = NewCount(count)
            /\ start_time' = instant
            /\ win' = win + 1
            /\ sh_count' = NewCount(sh_count)
            /\ sh_start' = instant
    /\ UNCHANGED <<instant, channel, calls, ops, susp, fixedVars>>

\* lines 76-86, one chunk
BulkOp(ok) ==
    /\ pc = "bulk_loop"
    /\ iter < NumChunks(bulk_seg)
    /\ dry_run => ok
    /\ LoopBody("bulk", BatchCall(Chunk(bulk_seg, iter + 1), ok), ok, "bulk_sleep")

BulkWake == Wake("bulk_sleep", "bulk_loop")

\* line 89
BulkReturn ==
    /\ pc = "bulk_loop"
    /\ iter = NumChunks(bulk_seg)
    /\ pc' = "returned"
    /\ result' = "Ok"
    /\ UNCHANGED <<instant, channel, calls, iter, count, start_time, win, ops, susp,
                   sh_count, sh_start, fixedVars>>

\* the caller of the two phases: the slow phase follows a bulk phase that
\* returned Ok; an error is handed on
RunSlowPhase ==
    /\ pc = "returned"
    /\ IF result = "Ok"
       THEN pc' = "slow_bulk_delete" /\ result' = "none"
       ELSE pc' = "done" /\ result' = result
    /\ UNCHANGED <<instant, channel, calls, iter, count, start_time, win, ops, susp,
                   sh_count, sh_start, fixedVars>>

\* lines 97-98
SlowStart ==
    /\ pc = "slow_bulk_delete"
    /\ pc' = "slow_loop"
    /\ iter' = 0
    /\ count' = NewCount(count)
    /\ start_time' = instant
    /\ win' = win + 1
    /\ sh_count' = NewCount(sh_count)
    /\ sh_start' = instant
    /\ UNCHANGED <<result, instant, channel, calls, ops, susp, fixedVars>>

\* lines 100-110, one message
SlowOp(ok) ==
    /\ pc = "slow_loop"
    /\ iter < Len(slow_seg)
    /\ dry_run => ok
    /\ LoopBody("slow", SingleCall(slow_seg[iter + 1], ok), ok, "slow_sleep")

SlowWake == Wake("slow_sleep", "slow_loop")

\* line 113
SlowReturn ==
    /\ pc = "slow_loop"
    /\ iter = Len(slow_seg)
    /\ pc' = "done"
    /\ result' = "Ok"
    /\ UNCHANGED <<instant, channel, calls, iter, count, start_time, win, ops, susp,
                   sh_count, sh_start, fixedVars>>

ExecNext ==
    \/ BulkStart
    \/ \E ok \in BOOLEAN : BulkOp(ok)
    \/ BulkWake
    \/ BulkReturn
    \/ RunSlowPhase
    \/ SlowStart
    \/ \E ok \in BOOLEAN : SlowOp(ok)
    \/ SlowWake
    \/ SlowReturn
    \/ Tick

ExecSpec == InitExec /\ [][ExecNext]_vars

----------------------------------------------------------------------------
(* Properties of the deletion phases, checked under ExecSpec *)

OpsIn(w) == {j \in 1..Len(ops) : ops[j].win = w}
OpsFrom(k) == {j \in 1..Len(ops) :
                 ops[j].at >= ops[k].at /\ ops[j].at < ops[k].at + WindowLen}
Sleeping == pc \in {"bulk_sleep", "slow_sleep"}

\* C6 as stated: no 60-second window that starts at a counted operation holds
\* more than METER_LIMIT counted operations of the execution.
C6_RateBound ==
    \A k \in 1..Len(ops) : Cardinality(OpsFrom(k)) <= METER_LIMIT

\* C6 as amended: each meter window of a phase (from the phase's start or a
\* resumption to the next reset) counts at most METER_LIMIT operations, none
\* of them before the window started, and the next window of the same phase
\* starts at least 60 seconds after it.
C6_WindowBound ==
    /\ count <= METER_LIMIT
    /\ \A w \in 1..win : Cardinality(OpsIn(w)) <= METER_LIMIT
    /\ \A j \in 1..Len(ops) : ops[j].at >= ops[j].start
    /\ \A j, k \in 1..Len(ops) :
          (ops[j].phase = ops[k].phase /\ ops[j].win < ops[k].win)
              => ops[k].start >= ops[j].start + WindowLen

C6_Witness ==
    /\ Len(ops) >= 2 * METER_LIMIT
    /\ \E k \in 1..Len(ops) :
          /\ Cardinality(OpsFrom(k)) > METER_LIMIT
          /\ \A j \in OpsFrom(k) : ops[j].phase = ops[k].phase
          /\ Cardinality(OpsIn(ops[k].win)) = METER_LIMIT

\* C7: a dry run issues no delete call and leaves the channel alone, and its
\* meter (count, window start, suspensions) is at every step that of the same
\* run with the flag inverted.
C7_DryRunPurity ==
    /\ dry_run => calls = <<>> /\ channel = Ids(history)
    /\ sh_count = count
    /\ sh_start = start_time
    /\ Sleeping <=> (pc \in {"bulk_sleep", "slow_sleep", "bulk_loop", "slow_loop"}
                      /\ LimitReached(sh_count))

C7_Witness ==
    /\ dry_run /\ pc = "done" /\ result = "Ok"
    /\ Len(ops) > METER_LIMIT /\ win >= 3
    /\ \E j \in 1..Len(ops) : ops[j].phase = "bulk"

\* C8: a failed delete call is the last call of the execution: the error is
\* returned, no call of the same or of the later phase follows, the messages
\* deleted before stay deleted and no message is named by two calls.
C8_FailFast ==
    /\ \A k \in 1..(Len(calls) - 1) : calls[k].ok
    /\ (calls # <<>> /\ ~calls[Len(calls)].ok) =>
          (result = "Err" /\ pc \in {"returned", "done"})
    /\ channel = Ids(history) \ CallIds(calls)
    /\ \A j, k \in 1..Len(calls) :
          j < k => Ids(calls[j].msgs) \cap Ids(calls[k].msgs) = {}

C8_Witness ==
    /\ pc = "done" /\ result = "Err"
    /\ Len(calls) >= 2 /\ calls[1].ok
    /\ calls[Len(calls)].kind = "delete_messages"
    /\ slow_seg # <<>>
    /\ channel # Ids(history) /\ Ids(slow_seg) \subseteq channel

\* the calls of each phase, and the messages a sequence of calls names
BulkCalls == SelectSeq(calls, LAMBDA c : c.kind = "delete_messages")
SlowCalls == SelectSeq(calls, LAMBDA c : c.kind = "delete_message")
SlowSusp == SelectSeq(susp, LAMBDA u : u.phase = "slow")
RECURSIVE ConcatMsgs(_)
ConcatMsgs(cs) == IF cs = <<>> THEN <<>> ELSE Head(cs).msgs \o ConcatMsgs(Tail(cs))
InSlowPhase == pc \in {"slow_loop", "slow_sleep"}
InBulkPhase == pc \in {"bulk_loop", "bulk_sleep"}
SlowDone == pc = "done" /\ result = "Ok"
BulkDone == (pc = "returned" /\ result = "Ok") \/ pc = "slow_bulk_delete"
               \/ InSlowPhase \/ SlowDone

\* C12: slow_bulk_delete issues one single-delete call per message, in the
\* segment's order, and suspends exactly after the calls numbered METER_LIMIT,
\* 2 * METER_LIMIT, ...: floor(n / METER_LIMIT) times for n messages; each
\* suspension lasts until 60 s after the window started and then sets count
\* to 0 and the window start to the resumption instant.
C12_SlowPacing ==
    /\ [](~dry_run =>
            /\ \A k \in 1..Len(SlowCalls) : SlowCalls[k].msgs = <<slow_seg[k]>>
            /\ InSlowPhase /\ result = "none" => Len(SlowCalls) = iter
            /\ SlowDone => Len(SlowCalls) = Len(slow_seg))
    /\ [](/\ \A k \in 1..Len(SlowSusp) : SlowSusp[k].after = k * METER_LIMIT
          /\ InSlowPhase => Len(SlowSusp) = iter \div METER_LIMIT
          /\ pc = "slow_sleep" <=> (InSlowPhase /\ iter > 0 /\ iter % METER_LIMIT = 0
                                      /\ count = METER_LIMIT)
          /\ SlowDone => Len(SlowSusp) = Len(slow_seg) \div METER_LIMIT)
    /\ [][(pc = "slow_sleep" /\ pc' # pc) =>
            /\ instant >= start_time + WindowLen
            /\ pc' = "slow_loop" /\ count' = 0 /\ start_time' = instant']_vars

C12_Witness ==
    /\ SlowDone /\ ~dry_run
    /\ Len(slow_seg) > 2 * METER_LIMIT /\ Len(slow_seg) % METER_LIMIT # 0
    /\ Len(SlowSusp) = 2 /\ Len(SlowCalls) = Len(slow_seg)

\* C13: bulk_delete issues ceil(b / ChunkSize) batch calls for b messages;
\* every group has at most ChunkSize messages, the groups in call order make
\* up the bulk segment, and the meter counts one per call.
C13_BulkChunks ==
    ~dry_run =>
        /\ \A k \in 1..Len(BulkCalls) : Len(BulkCalls[k].msgs) \in 1..ChunkSize
        /\ ConcatMsgs(BulkCalls) = SubSeq(bulk_seg, 1, Len(ConcatMsgs(BulkCalls)))
        /\ BulkDone =>
              /\ ConcatMsgs(BulkCalls) = bulk_seg
              /\ Len(BulkCalls) * ChunkSize >= Len(bulk_seg)
              /\ Len(BulkCalls) * ChunkSize < Len(bulk_seg) + ChunkSize
        /\ (InBulkPhase /\ result = "none") =>
              /\ Cardinality({j \in 1..Len(ops) : ops[j].phase = "bulk"}) = Len(BulkCalls)
              /\ count = Cardinality(OpsIn(win))

C13_Witness ==
    /\ ~dry_run /\ pc = "slow_bulk_delete"
    /\ Len(bulk_seg) > ChunkSize /\ Len(bulk_seg) % ChunkSize # 0
    /\ Len(BulkCalls) = 2

\* the counted operations of phase p that fall in the 60 seconds from t
OpsWithin(p, t) == {j \in 1..Len(ops) :
                      ops[j].phase = p /\ ops[j].at >= t /\ ops[j].at < t + WindowLen}

\* C14: within one phase no sliding 60-second interval holds more than
\* 2 * METER_LIMIT counted operations (and one straddling a reset can hold
\* that many: the witness).
C14_BurstBound ==
    \A p \in {"bulk", "slow"} : \A t \in 0..MaxInstant :
        Cardinality(OpsWithin(p, t)) <= 2 * METER_LIMIT

C14_Witness ==
    \E t \in 0..MaxInstant :
        /\ Cardinality(OpsWithin("slow", t)) = 2 * METER_LIMIT
        /\ \E j, k \in OpsWithin("slow", t) : ops[j].win # ops[k].win
        /\ Len(slow_seg) > 2 * METER_LIMIT

\* the debug_assert! of bulk_delete does not pass on the segment it is given
BulkAssertFails ==
    bulk_seg = <<>> \/ bulk_seg[Len(bulk_seg)].ts <= utc - Weeks2

\* C15 as stated: a delete call is issued only when the last message of the
\* whole candidate sequence, slow segment included, is not older than 14 days
\* at the time of execution.
C15_PlanAgeChecked ==
    calls # <<>> => history[Len(history)].ts >= utc - Weeks2

\* C15, amended: in a build with debug assertions bulk_delete checks, before
\* its first call, that the last message of the segment it was given is newer
\* than 14 days before the time of execution, and panics without a call when
\* it is not; nothing else ends an execution in a panic, so a build without
\* debug assertions and the slow phase check nothing.
C15_BulkAssertion ==
    /\ (debug_assertions /\ BulkAssertFails) =>
            /\ calls = <<>> /\ ops = <<>> /\ channel = Ids(history)
            /\ pc \in {"bulk_delete", "done"}
            /\ pc = "done" => result = "Panic"
    /\ result = "Panic" => (debug_assertions /\ BulkAssertFails /\ pc = "done")

C15_Witness ==
    /\ pc = "done" /\ result = "Panic" /\ ~dry_run
    /\ bulk_seg # <<>> /\ slow_seg # <<>>
    /\ bulk_seg[Len(bulk_seg)].ts = utc - Weeks2

----------------------------------------------------------------------------
(* Further properties of purge_old, checked under Spec *)

\* C16: when the collector times out, 120 s after the prompt was posted and
\* with no matching click taken, purge_old calls the platform no more: the
\* prompt keeps its enabled buttons, no acknowledgment is sent, nothing is
\* deleted, and the invocation ends with Ok and the decision TimedOut.
C16_TimeoutIsSilent ==
    /\ [](decision = "TimedOut" =>
            /\ pc = "done" /\ result = "Ok"
            /\ buttons = "enabled" /\ ack = "none" /\ interaction = None
            /\ calls = <<>> /\ channel = Ids(history))
    /\ [][(decision # "TimedOut" /\ decision' = "TimedOut") =>
            /\ pc = "await" /\ interaction = None
            /\ instant >= await_start + GateTimeout]_vars
    /\ [][decision = "TimedOut" =>
            UNCHANGED <<pc, result, buttons, ack, interaction, decision,
                        calls, channel>>]_vars

C16_Witness ==
    /\ decision = "TimedOut" /\ pc = "done" /\ result = "Ok"
    /\ buttons = "enabled" /\ clicks > 0
    /\ instant >= await_start + GateTimeout

\* C17: an error of the history stream at any position, among the messages
\* still being skipped or after older messages have been collected, makes
\* messages_before return the error and no list; purge_old then ends with
\* Err, having posted no prompt and deleted nothing.
C17_FetchErrorAborts ==
    /\ [](err_at > 0 =>
            /\ ~messages_before(Stream(history, err_at), before).ok
            /\ messages = <<>>
            /\ buttons = "none" /\ decision = "none" /\ ack = "none"
            /\ calls = <<>> /\ channel = Ids(history)
            /\ pc \notin {"plan", "send", "await", "respond", "followup"}
            /\ pc = "done" => result \in {"Err", "HistoryErr"})
    /\ [][(pc = "fetch" /\ err_at > 0 /\ pc' # pc) =>
            (pc' = "done" /\ result' = "HistoryErr" /\ messages' = <<>>)]_vars
    /\ [](result = "HistoryErr" => err_at > 0)

\* the error came after a message older than the cutoff had been collected
C17_Witness ==
    /\ pc = "done" /\ result = "HistoryErr"
    /\ err_at > 1 /\ history[err_at - 1].ts < before
    /\ err_at <= Len(history)

----------------------------------------------------------------------------
(* Further properties of the deletion phases, checked under ExecSpec *)

\* C18: each phase begins with count = 0 and the window start at the instant
\* it begins, whatever the other phase left, and whenever a delete call is
\* issued (or, in a dry run, would be) the count is below METER_LIMIT.
C18_OwnMeter ==
    /\ [](pc \in {"bulk_loop", "slow_loop"} => count < METER_LIMIT)
    /\ [][(pc \in {"bulk_delete", "slow_bulk_delete"} /\ pc' \in {"bulk_loop", "slow_loop"})
            => (count' = 0 /\ start_time' = instant')]_vars
    /\ [][(calls' # calls \/ ops' # ops) => count < METER_LIMIT]_vars

\* the slow phase has begun after a bulk phase that ended with a count above 0
\* in a window opened earlier
C18_Witness ==
    /\ pc = "slow_loop" /\ iter = 0 /\ count = 0 /\ start_time = instant
    /\ ops # <<>>
    /\ Cardinality(OpsIn(ops[Len(ops)].win)) \in 1..(METER_LIMIT - 1)
    /\ ops[Len(ops)].start < instant
    /\ \E u \in 1..Len(susp) : susp[u].phase = "bulk"

\* C19: bulk_delete on an empty segment issues no batch call, never suspends
\* and returns Ok; its age check reads no message, so it does not panic.
C19_EmptyBulkIsNoop ==
    bulk_seg = <<>> =>
        /\ result # "Panic"
        /\ BulkCalls = <<>>
        /\ pc \notin {"bulk_sleep"}
        /\ pc \notin {"bulk_delete", "bulk_loop"} => BulkDone

\* 12 hours, in 6 h units
Hours12 == Days7 \div 14

\* the bulk segment is one a plan made at UtcStart can produce
PlannedBulk ==
    /\ bulk_seg # <<>>
    /\ \A k \in 1..Len(bulk_seg) : bulk_seg[k].ts >= bulk_cutoff

\* C20: on a non-empty bulk segment of a plan the assertion of bulk_delete
\* holds when bulk_delete starts less than 12 hours after the plan's
\* bulk_cutoff was computed; it fails no earlier than 12 hours after.
C20_AssertionMargin ==
    PlannedBulk =>
        /\ result = "Panic" => utc - UtcStart >= Hours12
        /\ (utc - UtcStart < Hours12 /\ pc # "bulk_delete") => win >= 1

\* the assertion fails exactly 12 hours after planning, on a message at the
\* bulk cutoff
C20_Witness ==
    /\ PlannedBulk /\ debug_assertions
    /\ pc = "done" /\ result = "Panic"
    /\ utc - UtcStart = Hours12
    /\ bulk_seg[Len(bulk_seg)].ts = bulk_cutoff

====
